---- MODULE Spec2Model ----
\* BLE advertiser of source/main.cpp: the controller (start, on_init_complete,
\* start_advertising), the battery tick (update_battery_level), the advertising
\* data builder it drives, the Gap service it configures, and the shared event
\* queue that runs every callback on one consumer.
EXTENDS Integers, Sequences, FiniteSets

\* ---------------------------------------------------------------- bounds
\* Spec: notifications raised beyond the queue's capacity, the number of ticks
\* during which the stack raises them, and the ticks dispatched (the first
\* descent of 41 ticks, one cycle of 91, and three more)
MaxNotifyExtra == 1
MaxNotifyTicks == 1
MaxTicks == 135
\* SpecLevel: notifications and ticks from each 8-bit starting level
MaxLevelNotify == 1
MaxLevelTicks == 2
\* ticks whose Gap push is allowed to fail
MaxTickFailures == 1
\* time units the periodic item may be overdue before the clock stops
MaxLate == 0
\* SpecUnit: the longest name, manufacturer data and service bytes handed to
\* the builder (a name of 26 bytes fills the payload together with the flags)
MaxNameLen == 26
MaxManufacturerLen == 8
MaxServiceLen == 3

\* ------------------------------------------------------ program constants
\* m_TheBatteryLevel(50)
InitialBatteryLevel == 50
\* g_SharedEventQueue(16 * EVENTS_EVENT_SIZE): room for 16 events
QueueCapacity == 16
\* call_every(1000ms, ...), in time units of 500 ms
Period == 1000 \div 500
\* ble::LEGACY_ADVERTISING_MAX_SIZE
LEGACY_ADVERTISING_MAX_SIZE == 31
\* GattService::UUID_BATTERY_SERVICE
UUID_BATTERY_SERVICE == 6159
\* DEVICE_NAME = "NUCLEO-WB55RG" (strlen 13, ASCII)
DEVICE_NAME == <<78, 85, 67, 76, 69, 79, 45, 87, 66, 53, 53, 82, 71>>
\* _vendor_specific_data = { 0xAD, 0xDE, 0xBE, 0xEF }
VendorSpecificData == <<173, 222, 190, 239>>
\* advertisingParameters(SCANNABLE_UNDIRECTED, adv_interval_t(millisecond_t(1000)))
AdvertisingParameters == [type |-> "SCANNABLE_UNDIRECTED", interval |-> 1000]

\* Gap before setAdvertisingParameters
NoParameters == [type |-> "none", interval |-> 0]

\* ble_error_t values the model's Gap and stack return
BLE_ERROR_NONE == "BLE_ERROR_NONE"
GapStatuses == {"BLE_ERROR_NONE", "BLE_ERROR_INVALID_PARAM"}
InitStatuses == {"BLE_ERROR_NONE", "BLE_ERROR_INITIALIZATION_INCOMPLETE"}

\* ------------------------------------------------ advertising data builder
\* advertising data types: FLAGS, COMPLETE_LOCAL_NAME, SERVICE_DATA,
\* MANUFACTURER_SPECIFIC_DATA
FLAGS == 1
COMPLETE_LOCAL_NAME == 9
SERVICE_DATA == 22
MANUFACTURER_SPECIFIC_DATA == 255
\* LE_GENERAL_DISCOVERABLE | BREDR_NOT_SUPPORTED, the default of setFlags()
DefaultFlags == 6

\* one element on the wire: length, type, data
Element(type, data) == <<Len(data) + 1, type>> \o data

RECURSIVE FieldAt(_, _, _)
\* index of the length byte of the element of this type, scanning from i; 0 if absent
FieldAt(buf, type, i) ==
  IF i + 1 > Len(buf) THEN 0
  ELSE IF buf[i + 1] = type THEN i
  ELSE FieldAt(buf, type, i + buf[i] + 1)

\* mutants of SetField: no capacity check; an element that does not fit is
\* written as far as it fits; the element is always appended
SetFieldUnchecked(buf, type, data) ==
  LET at == FieldAt(buf, type, 1)
  IN [error |-> BLE_ERROR_NONE,
      buf |-> IF at = 0
              THEN buf \o Element(type, data)
              ELSE SubSeq(buf, 1, at - 1) \o Element(type, data)
                   \o SubSeq(buf, at + buf[at] + 1, Len(buf))]
SetFieldTruncating(buf, type, data) ==
  LET new == SetFieldUnchecked(buf, type, data).buf
  IN IF Len(new) > LEGACY_ADVERTISING_MAX_SIZE
     THEN [error |-> "BLE_ERROR_BUFFER_OVERFLOW",
           buf |-> SubSeq(new, 1, LEGACY_ADVERTISING_MAX_SIZE)]
     ELSE [error |-> BLE_ERROR_NONE, buf |-> new]
SetFieldAppends(buf, type, data) ==
  IF Len(buf \o Element(type, data)) > LEGACY_ADVERTISING_MAX_SIZE
  THEN [error |-> "BLE_ERROR_BUFFER_OVERFLOW", buf |-> buf]
  ELSE [error |-> BLE_ERROR_NONE, buf |-> buf \o Element(type, data)]

\* append the element, or replace the element of the same type in place;
\* BLE_ERROR_BUFFER_OVERFLOW and an unchanged buffer when it would not fit
SetField(buf, type, data) ==
  LET at == FieldAt(buf, type, 1)
      new == IF at = 0
             THEN buf \o Element(type, data)
             ELSE SubSeq(buf, 1, at - 1) \o Element(type, data)
                  \o SubSeq(buf, at + buf[at] + 1, Len(buf))
  IN IF Len(new) > LEGACY_ADVERTISING_MAX_SIZE
     THEN [error |-> "BLE_ERROR_BUFFER_OVERFLOW", buf |-> buf]
     ELSE [error |-> BLE_ERROR_NONE, buf |-> new]

clear(buf) == <<>>
setFlags(buf) == SetField(buf, FLAGS, <<DefaultFlags>>)
setName(buf, name) == SetField(buf, COMPLETE_LOCAL_NAME, name)
setManufacturerSpecificData(buf, data) == SetField(buf, MANUFACTURER_SPECIFIC_DATA, data)
\* the data of a service-data element: the 16-bit service id, low byte first,
\* then the service's bytes
ServiceData(service, data) == <<service % 256, service \div 256>> \o data
setServiceData(buf, service, data) ==
  SetField(buf, SERVICE_DATA, ServiceData(service, data))

RECURSIVE Elements(_, _)
\* the elements of a payload, in order, as <<type, data>> pairs
Elements(buf, i) ==
  IF i + 1 > Len(buf) THEN <<>>
  ELSE <<[type |-> buf[i + 1], data |-> SubSeq(buf, i + 2, i + buf[i])]>>
       \o Elements(buf, i + buf[i] + 1)

\* ------------------------------------------------------- error-code table
\* the insert calls of make_error_codes_map, in order
ErrorCodeEntries ==
  << <<"BLE_ERROR_NONE", "\"No error\"">>,
     <<"BLE_ERROR_BUFFER_OVERFLOW",
       "\"The requested action would cause a buffer overflow and has been aborted\"">>,
     <<"BLE_ERROR_NOT_IMPLEMENTED",
       "\"Requested a feature that isn't yet implemented or isn't supported by the target HW\"">>,
     <<"BLE_ERROR_PARAM_OUT_OF_RANGE",
       "\"One of the supplied parameters is outside the valid range\"">>,
     <<"BLE_ERROR_INVALID_PARAM", "\"One of the supplied parameters is invalid\"">>,
     <<"BLE_STACK_BUSY", "\"The stack is busy\"">>,
     <<"BLE_ERROR_INVALID_STATE", "\"Invalid state\"">>,
     <<"BLE_ERROR_NO_MEM", "\"Out of memory\"">>,
     <<"BLE_ERROR_OPERATION_NOT_PERMITTED",
       "\"The operation requested is not permitted\"">>,
     <<"BLE_ERROR_INITIALIZATION_INCOMPLETE",
       "\"The BLE subsystem has not completed its initialization\"">>,
     <<"BLE_ERROR_ALREADY_INITIALIZED",
       "\"The BLE system has already been initialized\"">>,
     <<"BLE_ERROR_UNSPECIFIED", "\"Unknown error\"">>,
     <<"BLE_ERROR_INTERNAL_STACK_FAILURE", "\"The platform-specific stack failed\"">>,
     <<"BLE_ERROR_NOT_FOUND", "\"Data not found or there is nothing to return\"">> >>

\* std::map::insert of the entries in order: the first entry of a key stays
make_error_codes_map ==
  LET keys == {ErrorCodeEntries[i][1] : i \in 1..Len(ErrorCodeEntries)}
      first(k) == CHOOSE i \in 1..Len(ErrorCodeEntries) :
                    /\ ErrorCodeEntries[i][1] = k
                    /\ \A j \in 1..(i - 1) : ErrorCodeEntries[j][1] # k
  IN [k \in keys |-> ErrorCodeEntries[first(k)][2]]

\* the string ToString returns for a key the table does not hold
NotInTable ==
  "\"Warning! Code does not indicate an error and consequently does not exist in gs_ErrorCodesMap!\""

\* ble_error_t values that are none of the table's keys
UnlistedCodes == {"ble_error_t(14)", "ble_error_t(127)", "ble_error_t(255)"}

\* the values a ble_error_t is handed to ToString with
ErrorCodeValues == DOMAIN make_error_codes_map \cup UnlistedCodes

\* mutant of ToString: the lookup is gs_ErrorCodesMap[key], which inserts an
\* empty string for a key the table does not hold
ToStringBySubscript(map, key) ==
  [result |-> IF key \in DOMAIN map THEN map[key] ELSE "",
   map |-> [k \in DOMAIN map \cup {key} |-> IF k \in DOMAIN map THEN map[k] ELSE ""]]

\* ToString(key): gs_ErrorCodesMap.find(key); the entry's string when found,
\* the fixed warning when not; the table is read only
ToString(map, key) ==
  [result |-> IF key \in DOMAIN map THEN map[key] ELSE NotInTable,
   map |-> map]

\* ------------------------------------------------------------ event queue
NoItem == [kind |-> "none", id |-> 0, target |-> 0]
OneShot(n) == [kind |-> "oneshot", id |-> n, target |-> 0]
Periodic(t) == [kind |-> "periodic", id |-> 0, target |-> t]

\* mutant of Enqueue: the new event goes to the front of the queue
EnqueueInFront(q, e) == <<e>> \o q

\* insert by due time, behind every item due at the same time or earlier
Enqueue(q, e) ==
  LET k == Cardinality({i \in 1..Len(q) : q[i].target <= e.target})
  IN SubSeq(q, 1, k) \o <<e>> \o SubSeq(q, k + 1, Len(q))

\* an item's due time after one time unit: one-shot ages are kept down to
\* one unit below the latest the periodic item can be
Aged(e) ==
  IF e.kind = "none" THEN e
  ELSE [e EXCEPT !.target = IF e.target - 1 < 0 - (MaxLate + 1)
                            THEN 0 - (MaxLate + 1) ELSE e.target - 1]

VARIABLES
  ctrl,                 \* controller state of the spec's state machine
  pc,                   \* where the consumer (dispatch_forever) is
  m_TheBatteryLevel,    \* uint8_t
  m_AdvertisingBuffer,  \* the builder's payload bytes (its length is the cursor)
  gap,                  \* what the Gap service holds for the legacy handle
  gapCalls,             \* how often each Gap call has been made
  setupStatus,          \* status each Gap call of start_advertising returned
  init,                 \* BLE::init: requested / completed, and the status reported
  queue,                \* g_SharedEventQueue: pending events by due time
  running,              \* the event whose callback is executing
  raised,               \* events-to-process notifications raised so far
  dropped,              \* notifications whose call() found no room
  execCount,            \* executions of each notification's item
  ticks,                \* update_battery_level invocations so far
  tickResult,           \* outcome of the last finished tick
  tickFailures,         \* ticks that ended in an error return
  levelBefore,          \* the level the running / last tick started from
  builderCall,          \* the last call made on the builder and what it returned
  gs_ErrorCodesMap,     \* the table ToString looks codes up in
  described,            \* the last code handed to ToString and the string returned
  missed                \* ticks ended since Gap last accepted a payload

vars == <<ctrl, pc, m_TheBatteryLevel, m_AdvertisingBuffer, gap, gapCalls,
          setupStatus, init, queue, running, raised, dropped, execCount, ticks,
          tickResult, tickFailures, levelBefore, builderCall, gs_ErrorCodesMap,
          described, missed>>

\* no builder call made yet, and a call as the model records it: the operation,
\* the element it sets, the status returned, and whether it repeats the call
\* before it (same operation and data, which succeeded)
NoCall == [op |-> "none", type |-> 0, data |-> <<>>, error |-> BLE_ERROR_NONE,
           again |-> FALSE]
BuilderCalled(prev, op, type, data, error) ==
  [op |-> op, type |-> type, data |-> data, error |-> error,
   again |-> prev.op = op /\ prev.data = data /\ prev.error = BLE_ERROR_NONE]

\* ToString not called yet
NothingDescribed == [key |-> "none", result |-> "none"]

GapCallNames == {"setAdvertisingScanResponse", "setAdvertisingParameters",
                 "setAdvertisingPayload", "startAdvertising"}

\* state after main() has constructed the BLE instance, the queue and demo
InitWith(level) ==
  /\ ctrl = "Uninitialized"
  /\ pc = "main"
  /\ m_TheBatteryLevel = level
  /\ m_AdvertisingBuffer = <<>>
  /\ gap = [params |-> NoParameters, payload |-> <<>>, scanResponse |-> <<>>,
            advertising |-> FALSE]
  /\ gapCalls = [c \in GapCallNames |-> 0]
  /\ setupStatus = [c \in GapCallNames |-> "none"]
  /\ init = [state |-> "none", error |-> "none"]
  /\ queue = <<>>
  /\ running = NoItem
  /\ raised = 0
  /\ dropped = {}
  /\ execCount = <<>>
  /\ ticks = 0
  /\ tickResult = "none"
  /\ tickFailures = 0
  /\ levelBefore = level
  /\ builderCall = NoCall
  /\ gs_ErrorCodesMap = make_error_codes_map
  /\ described = NothingDescribed
  /\ missed = 0

Init == InitWith(InitialBatteryLevel)

\* ------------------------------------------------------------- helpers
SlotsUsed == Len(queue) + (IF running.kind = "none" THEN 0 ELSE 1)

\* EventQueue::call / call_every: the event is queued when the queue's memory
\* has room for it, and is lost (id 0 returned) when it has not
call(q, used, e) == IF used < QueueCapacity THEN Enqueue(q, e) ELSE q

\* mutant of InitFailed: the status of the init callback is not looked at
InitFailedUnchecked(error) == FALSE

\* on_init_complete: if (params->error != BLE_ERROR_NONE) { ... return; }
InitFailed(error) == error # BLE_ERROR_NONE

\* if (error) { ... return; } after a Gap or builder call
Failed(error) == error # BLE_ERROR_NONE

\* mutant of CtrlAfterTick: an error in a tick halts the controller
CtrlAfterTickHalts(c, error) == IF error # BLE_ERROR_NONE THEN "Failed" ELSE c

\* the error returns of update_battery_level print and return: the controller
\* stays as it is and the callback ends like any other
CtrlAfterTick(c, error) == c

\* the builder calls of start_advertising before setAdvertisingScanResponse
ScanResponsePayload(buf) == setManufacturerSpecificData(buf, VendorSpecificData).buf

\* mutant of PrimaryPayload: the builder is not cleared after the scan response
PrimaryPayloadNoClear(buf, level) ==
  setServiceData(setName(setFlags(buf).buf, DEVICE_NAME).buf,
                 UUID_BATTERY_SERVICE, <<level>>).buf

\* the builder calls of start_advertising before setAdvertisingPayload
PrimaryPayload(buf, level) ==
  setServiceData(setName(setFlags(clear(buf)).buf, DEVICE_NAME).buf,
                 UUID_BATTERY_SERVICE, <<level>>).buf

\* m_TheBatteryLevel--, on a uint8_t
Decrement(level) == (level + 255) % 256

\* mutants of WrapTest: --m_TheBatteryLevel == 10 (the test reads the
\* decremented level), and a wrap at 0 instead of 10
WrapTestPreDecrement(level) == Decrement(level) = 10
WrapTestAtZero(level) == level = 0

\* m_TheBatteryLevel-- == 10: the test reads the level before the decrement
WrapTest(level) == level = 10
\* the callback of the running one-shot item has returned: the event is freed
FinishItem ==
  /\ pc' = "idle"
  /\ running' = NoItem
  /\ execCount' = [execCount EXCEPT ![running.id] = @ + 1]

\* a Gap call on the legacy handle: the stack keeps the new value only on success
GapCall(name, status, field, value) ==
  /\ gapCalls' = [gapCalls EXCEPT ![name] = @ + 1]
  /\ gap' = IF status = BLE_ERROR_NONE THEN [gap EXCEPT ![field] = value] ELSE gap

\* ------------------------------------------------------------- actions
\* main -> demo.start(): BLE::init is requested, dispatch_forever is entered
start ==
  /\ pc = "main"
  /\ pc' = "idle"
  /\ ctrl' = "Initializing"
  /\ init' = [state |-> "pending", error |-> "none"]
  /\ UNCHANGED <<m_TheBatteryLevel, m_AdvertisingBuffer, gap, gapCalls, setupStatus,
                 queue, running, raised, dropped, execCount, ticks, tickResult,
                 tickFailures, levelBefore,
                 builderCall, gs_ErrorCodesMap, described, missed>>

\* mutant of schedule_ble_events: a notification is forwarded only when no
\* process-events item is waiting already
schedule_ble_events_coalesced(maxNotify, notifyTicks) ==
  /\ init.state # "none"
  /\ raised < maxNotify
  /\ ticks <= notifyTicks
  /\ raised' = raised + 1
  /\ execCount' = Append(execCount, 0)
  /\ queue' = IF \E i \in 1..Len(queue) : queue[i].kind = "oneshot"
              THEN queue
              ELSE call(queue, SlotsUsed, OneShot(raised + 1))
  /\ dropped' = IF queue' = queue THEN dropped \cup {raised + 1} ELSE dropped
  /\ UNCHANGED <<ctrl, pc, m_TheBatteryLevel, m_AdvertisingBuffer, gap, gapCalls,
                 setupStatus, init, running, ticks, tickResult, tickFailures,
                 levelBefore,
                 builderCall, gs_ErrorCodesMap, described, missed>>

\* mutant of schedule_ble_events: the producer calls processEvents itself
\* instead of posting it, so the setup's first builder call runs in its context
schedule_ble_events_inline(maxNotify, notifyTicks) ==
  /\ init.state # "none"
  /\ raised < maxNotify
  /\ ticks <= notifyTicks
  /\ raised' = raised + 1
  /\ execCount' = Append(execCount, 1)
  /\ m_AdvertisingBuffer' = ScanResponsePayload(m_AdvertisingBuffer)
  /\ UNCHANGED <<ctrl, pc, m_TheBatteryLevel, gap, gapCalls, setupStatus, init, queue,
                 running, dropped, ticks, tickResult, tickFailures, levelBefore,
                 builderCall, gs_ErrorCodesMap, described, missed>>

\* the stack's events-to-process notification, from the producer's context
schedule_ble_events(maxNotify, notifyTicks) ==
  /\ init.state # "none"
  /\ raised < maxNotify
  /\ ticks <= notifyTicks
  /\ raised' = raised + 1
  /\ execCount' = Append(execCount, 0)
  /\ queue' = call(queue, SlotsUsed, OneShot(raised + 1))
  /\ dropped' = IF queue' = queue THEN dropped \cup {raised + 1} ELSE dropped
  /\ UNCHANGED <<ctrl, pc, m_TheBatteryLevel, m_AdvertisingBuffer, gap, gapCalls,
                 setupStatus, init, running, ticks, tickResult, tickFailures,
                 levelBefore,
                 builderCall, gs_ErrorCodesMap, described, missed>>

\* dispatch_forever takes the first due event: a process-events item
DispatchOneShot ==
  /\ pc = "idle"
  /\ queue # <<>>
  /\ Head(queue).target <= 0
  /\ Head(queue).kind = "oneshot"
  /\ running' = Head(queue)
  /\ queue' = Tail(queue)
  /\ pc' = "processEvents"
  /\ UNCHANGED <<ctrl, m_TheBatteryLevel, m_AdvertisingBuffer, gap, gapCalls,
                 setupStatus, init, raised, dropped, execCount, ticks, tickResult,
                 tickFailures, levelBefore,
                 builderCall, gs_ErrorCodesMap, described, missed>>

\* dispatch_forever takes the first due event: the periodic battery item
DispatchPeriodic(maxTicks) ==
  /\ pc = "idle"
  /\ queue # <<>>
  /\ Head(queue).target <= 0
  /\ Head(queue).kind = "periodic"
  /\ ticks < maxTicks
  /\ running' = Head(queue)
  /\ queue' = Tail(queue)
  /\ pc' = "update_battery_level"
  /\ levelBefore' = m_TheBatteryLevel
  /\ UNCHANGED <<ctrl, m_TheBatteryLevel, m_AdvertisingBuffer, gap, gapCalls,
                 setupStatus, init, raised, dropped, execCount, ticks, tickResult,
                 tickFailures,
                 builderCall, gs_ErrorCodesMap, described, missed>>

\* BLE::processEvents with nothing for the application
processEvents ==
  /\ pc = "processEvents"
  /\ FinishItem
  /\ UNCHANGED <<ctrl, m_TheBatteryLevel, m_AdvertisingBuffer, gap, gapCalls,
                 setupStatus, init, queue, raised, dropped, ticks, tickResult,
                 tickFailures, levelBefore,
                 builderCall, gs_ErrorCodesMap, described, missed>>

\* BLE::processEvents completes the initialization: on_init_complete(params)
on_init_complete ==
  /\ pc = "processEvents"
  /\ init.state = "pending"
  /\ \E error \in InitStatuses :
       /\ init' = [state |-> "done", error |-> error]
       /\ IF InitFailed(error)
          THEN /\ ctrl' = "Failed"
               /\ FinishItem
          ELSE /\ ctrl' = "AdvertisingConfigured"
               /\ pc' = "start_advertising"
               /\ UNCHANGED <<running, execCount>>
  /\ UNCHANGED <<m_TheBatteryLevel, m_AdvertisingBuffer, gap, gapCalls, setupStatus,
                 queue, raised, dropped, ticks, tickResult, tickFailures, levelBefore,
                 builderCall, gs_ErrorCodesMap, described, missed>>

\* start_advertising, lines 160-166: the scan response is built and handed to
\* Gap; the status Gap returns is not looked at
sa_scan_response ==
  /\ pc = "start_advertising"
  /\ m_AdvertisingBuffer' = ScanResponsePayload(m_AdvertisingBuffer)
  /\ \E status \in GapStatuses :
       /\ GapCall("setAdvertisingScanResponse", status, "scanResponse",
                  m_AdvertisingBuffer')
       /\ setupStatus' = [setupStatus EXCEPT !["setAdvertisingScanResponse"] = status]
  /\ builderCall' =
       BuilderCalled(builderCall, "setManufacturerSpecificData",
                     MANUFACTURER_SPECIFIC_DATA, VendorSpecificData,
                     setManufacturerSpecificData(m_AdvertisingBuffer,
                                                 VendorSpecificData).error)
  /\ pc' = "sa_parameters"
  /\ UNCHANGED <<ctrl, m_TheBatteryLevel, init, queue, running, raised, dropped,
                 execCount, ticks, tickResult, tickFailures, levelBefore,
                 gs_ErrorCodesMap, described, missed>>

\* start_advertising, lines 170-192: the primary payload is built, then
\* setAdvertisingParameters; an error returns from the callback
sa_parameters ==
  /\ pc = "sa_parameters"
  /\ m_AdvertisingBuffer' = PrimaryPayload(m_AdvertisingBuffer, m_TheBatteryLevel)
  /\ \E status \in GapStatuses :
       /\ GapCall("setAdvertisingParameters", status, "params", AdvertisingParameters)
       /\ setupStatus' = [setupStatus EXCEPT !["setAdvertisingParameters"] = status]
       /\ IF Failed(status)
          THEN ctrl' = "Failed" /\ FinishItem
          ELSE ctrl' = ctrl /\ pc' = "sa_payload" /\ UNCHANGED <<running, execCount>>
  /\ builderCall' =
       BuilderCalled(builderCall, "setServiceData", SERVICE_DATA,
                     ServiceData(UUID_BATTERY_SERVICE, <<m_TheBatteryLevel>>),
                     setServiceData(setName(setFlags(clear(m_AdvertisingBuffer)).buf,
                                            DEVICE_NAME).buf,
                                    UUID_BATTERY_SERVICE, <<m_TheBatteryLevel>>).error)
  /\ UNCHANGED <<m_TheBatteryLevel, init, queue, raised, dropped, ticks, tickResult,
                 tickFailures, levelBefore, gs_ErrorCodesMap, described, missed>>

\* start_advertising, lines 194-205: setAdvertisingPayload
sa_payload ==
  /\ pc = "sa_payload"
  /\ \E status \in GapStatuses :
       /\ GapCall("setAdvertisingPayload", status, "payload", m_AdvertisingBuffer)
       /\ setupStatus' = [setupStatus EXCEPT !["setAdvertisingPayload"] = status]
       /\ IF Failed(status)
          THEN ctrl' = "Failed" /\ FinishItem
          ELSE ctrl' = ctrl /\ pc' = "sa_start" /\ UNCHANGED <<running, execCount>>
  /\ UNCHANGED <<m_TheBatteryLevel, m_AdvertisingBuffer, init, queue, raised, dropped,
                 ticks, tickResult, tickFailures, levelBefore,
                 builderCall, gs_ErrorCodesMap, described, missed>>

\* start_advertising, lines 208-235: startAdvertising, then call_every(1000ms)
sa_start ==
  /\ pc = "sa_start"
  /\ \E status \in GapStatuses :
       /\ GapCall("startAdvertising", status, "advertising", TRUE)
       /\ setupStatus' = [setupStatus EXCEPT !["startAdvertising"] = status]
       /\ IF Failed(status)
          THEN ctrl' = "Failed" /\ queue' = queue
          ELSE ctrl' = "Advertising"
               /\ queue' = call(queue, SlotsUsed, Periodic(Period))
  /\ FinishItem
  /\ UNCHANGED <<m_TheBatteryLevel, m_AdvertisingBuffer, init, raised, dropped,
                 ticks, tickResult, tickFailures, levelBefore,
                 builderCall, gs_ErrorCodesMap, described, missed>>

\* update_battery_level, line 240: the test on the old level and the decrement
tick_decrement ==
  /\ pc = "update_battery_level"
  /\ ticks' = ticks + 1
  /\ m_TheBatteryLevel' = Decrement(m_TheBatteryLevel)
  /\ pc' = IF WrapTest(m_TheBatteryLevel) THEN "tick_wrap" ELSE "tick_patch"
  /\ UNCHANGED <<ctrl, m_AdvertisingBuffer, gap, gapCalls, setupStatus, init, queue,
                 running, raised, dropped, execCount, tickResult, tickFailures,
                 levelBefore,
                 builderCall, gs_ErrorCodesMap, described, missed>>

\* update_battery_level, line 242: m_TheBatteryLevel = 100
tick_wrap ==
  /\ pc = "tick_wrap"
  /\ m_TheBatteryLevel' = 100
  /\ pc' = "tick_patch"
  /\ UNCHANGED <<ctrl, m_AdvertisingBuffer, gap, gapCalls, setupStatus, init, queue,
                 running, raised, dropped, execCount, ticks, tickResult, tickFailures,
                 levelBefore,
                 builderCall, gs_ErrorCodesMap, described, missed>>

\* the periodic callback has returned: the event is queued again, one period
\* after the time it was due, and not before now
Rearm(e) == [e EXCEPT !.target = IF e.target + Period < 0 THEN 0 ELSE e.target + Period]

\* mutant of AfterTick: an error return cancels the periodic event
AfterTickCancelOnError(q, e, error) ==
  IF error # BLE_ERROR_NONE THEN q ELSE Enqueue(q, Rearm(e))

\* the periodic callback returns, with or without an error: nothing cancels
\* the event, so the queue takes it back for its next period
AfterTick(q, e, error) == Enqueue(q, Rearm(e))

\* mutant of TickPatch: the builder is cleared before the battery element is set
TickPatchAfterClear(buf, level) ==
  setServiceData(clear(buf), UUID_BATTERY_SERVICE, <<level>>)

\* mutant of TickPatch: the element is written from the level the tick started
\* with, as if the payload were patched before the level is updated
TickPatchBeforeUpdate(buf, level) ==
  setServiceData(buf, UUID_BATTERY_SERVICE, <<IF level = 100 THEN 10 ELSE level + 1>>)

\* update_battery_level, lines 293-295:
\* setServiceData(UUID_BATTERY_SERVICE, make_Span(&m_TheBatteryLevel, 1))
TickPatch(buf, level) == setServiceData(buf, UUID_BATTERY_SERVICE, <<level>>)

\* mutant of TickPush: the tick starts advertising again after its push
TickPushAndRestart(status, buf) ==
  /\ gapCalls' = [gapCalls EXCEPT !["setAdvertisingPayload"] = @ + 1,
                                  !["startAdvertising"] = @ + 1]
  /\ gap' = IF status = BLE_ERROR_NONE THEN [gap EXCEPT !.payload = buf] ELSE gap

\* update_battery_level, lines 306-309: the one Gap call of a tick,
\* setAdvertisingPayload(LEGACY_ADVERTISING_HANDLE, getAdvertisingData())
TickPush(status, buf) == GapCall("setAdvertisingPayload", status, "payload", buf)

\* update_battery_level, lines 293-318: setServiceData, then
\* setAdvertisingPayload; either error returns from the callback
tick_patch(maxFailures) ==
  /\ pc = "tick_patch"
  /\ LET patched == TickPatch(m_AdvertisingBuffer, m_TheBatteryLevel)
     IN /\ builderCall' =
             BuilderCalled(builderCall, "setServiceData", SERVICE_DATA,
                           ServiceData(UUID_BATTERY_SERVICE, <<m_TheBatteryLevel>>),
                           patched.error)
        /\ IF Failed(patched.error)
           THEN /\ tickResult' = "setServiceData failed"
                /\ tickFailures' = tickFailures + 1
                /\ ctrl' = CtrlAfterTick(ctrl, patched.error)
                /\ queue' = AfterTick(queue, running, patched.error)
                /\ UNCHANGED <<m_AdvertisingBuffer, gap, gapCalls>>
           ELSE /\ m_AdvertisingBuffer' = patched.buf
                /\ \E status \in GapStatuses :
                     /\ Failed(status) => tickFailures < maxFailures
                     /\ TickPush(status, patched.buf)
                     /\ tickResult' = IF Failed(status)
                                      THEN "setAdvertisingPayload failed" ELSE "ok"
                     /\ tickFailures' = IF Failed(status) THEN tickFailures + 1
                                        ELSE tickFailures
                     /\ ctrl' = CtrlAfterTick(ctrl, status)
                     /\ queue' = AfterTick(queue, running, status)
  /\ missed' = IF tickResult' = "ok" THEN 0 ELSE missed + 1
  /\ running' = NoItem
  /\ pc' = "idle"
  /\ UNCHANGED <<m_TheBatteryLevel, setupStatus, init, raised, dropped,
                 execCount, ticks, levelBefore, gs_ErrorCodesMap, described>>

\* one time unit passes while the periodic item is registered
Advance ==
  /\ \E e \in {running} \cup {queue[i] : i \in 1..Len(queue)} :
       e.kind = "periodic" /\ e.target > 0 - MaxLate
  /\ queue' = [i \in 1..Len(queue) |-> Aged(queue[i])]
  /\ running' = Aged(running)
  /\ UNCHANGED <<ctrl, pc, m_TheBatteryLevel, m_AdvertisingBuffer, gap, gapCalls,
                 setupStatus, init, raised, dropped, execCount, ticks, tickResult,
                 tickFailures, levelBefore,
                 builderCall, gs_ErrorCodesMap, described, missed>>

\* -------------------------------------------------------- specifications
NextWith(maxNotify, notifyTicks, maxTicks, maxFailures) ==
  \/ start
  \/ schedule_ble_events(maxNotify, notifyTicks)
  \/ DispatchOneShot
  \/ DispatchPeriodic(maxTicks)
  \/ processEvents
  \/ on_init_complete
  \/ sa_scan_response
  \/ sa_parameters
  \/ sa_payload
  \/ sa_start
  \/ tick_decrement
  \/ tick_wrap
  \/ tick_patch(maxFailures)
  \/ Advance

\* the program as main() starts it
Next == NextWith(QueueCapacity + MaxNotifyExtra, MaxNotifyTicks, MaxTicks,
                 MaxTickFailures)
Spec == Init /\ [][Next]_vars

\* a step of the consumer: dispatch_forever takes a due event or the running
\* callback goes on
ConsumerStep ==
  \/ DispatchOneShot
  \/ DispatchPeriodic(MaxTicks)
  \/ processEvents
  \/ on_init_complete
  \/ sa_scan_response
  \/ sa_parameters
  \/ sa_payload
  \/ sa_start
  \/ tick_decrement
  \/ tick_wrap
  \/ tick_patch(MaxTickFailures)

\* the program with a consumer that keeps running: dispatch_forever never
\* returns and no callback blocks
FairSpec == Init /\ [][Next]_vars /\ WF_vars(ConsumerStep)

\* the program from any 8-bit battery level
InitLevel == \E level \in 0..255 : InitWith(level)
NextLevel == NextWith(MaxLevelNotify, MaxLevelTicks, MaxLevelTicks, MaxTickFailures)
SpecLevel == InitLevel /\ [][NextLevel]_vars

\* the builder and ToString on their own: any sequence of calls, with names,
\* manufacturer data and service data of several sizes, and every code value
Bytes(n) == [i \in 1..n |-> i]
OtherService == 6154
Names == {DEVICE_NAME, Bytes(MaxNameLen)}
ManufacturerData == {VendorSpecificData, Bytes(MaxManufacturerLen)}
Services == {UUID_BATTERY_SERVICE, OtherService}
ServiceBytes == {<<InitialBatteryLevel>>, <<InitialBatteryLevel - 1>>, Bytes(MaxServiceLen)}

\* a call on the builder: the payload it leaves and the status it returns
BuilderStep(op, type, data, r) ==
  /\ m_AdvertisingBuffer' = r.buf
  /\ builderCall' = BuilderCalled(builderCall, op, type, data, r.error)
  /\ UNCHANGED <<ctrl, pc, m_TheBatteryLevel, gap, gapCalls, setupStatus, init, queue,
                 running, raised, dropped, execCount, ticks, tickResult, tickFailures,
                 levelBefore, gs_ErrorCodesMap, described, missed>>

\* the calls, made on the builder as constructed, before start()
call_clear ==
  /\ pc = "main"
  /\ BuilderStep("clear", 0, <<>>,
                 [error |-> BLE_ERROR_NONE, buf |-> clear(m_AdvertisingBuffer)])

call_setFlags ==
  /\ pc = "main"
  /\ BuilderStep("setFlags", FLAGS, <<DefaultFlags>>, setFlags(m_AdvertisingBuffer))

call_setName ==
  /\ pc = "main"
  /\ \E name \in Names :
       BuilderStep("setName", COMPLETE_LOCAL_NAME, name,
                   setName(m_AdvertisingBuffer, name))

call_setManufacturerSpecificData ==
  /\ pc = "main"
  /\ \E data \in ManufacturerData :
       BuilderStep("setManufacturerSpecificData", MANUFACTURER_SPECIFIC_DATA, data,
                   setManufacturerSpecificData(m_AdvertisingBuffer, data))

call_setServiceData ==
  /\ pc = "main"
  /\ \E service \in Services, data \in ServiceBytes :
       BuilderStep("setServiceData", SERVICE_DATA, ServiceData(service, data),
                   setServiceData(m_AdvertisingBuffer, service, data))

\* ToString(key) for any value of the code
call_ToString ==
  /\ pc = "main"
  /\ \E key \in ErrorCodeValues :
       LET r == ToString(gs_ErrorCodesMap, key)
       IN /\ described' = [key |-> key, result |-> r.result]
          /\ gs_ErrorCodesMap' = r.map
  /\ UNCHANGED <<ctrl, pc, m_TheBatteryLevel, m_AdvertisingBuffer, gap, gapCalls,
                 setupStatus, init, queue, running, raised, dropped, execCount,
                 ticks, tickResult, tickFailures, levelBefore, builderCall,
                 missed>>

NextUnit ==
  \/ call_clear
  \/ call_setFlags
  \/ call_setName
  \/ call_setManufacturerSpecificData
  \/ call_setServiceData
  \/ call_ToString

SpecUnit == Init /\ [][NextUnit]_vars

\* ------------------------------------------------------------- claims
\* a tick is in progress: the periodic callback has been taken and not returned
InTick == running.kind = "periodic"

\* the periodic battery item is registered with the queue
PeriodicRegistered ==
  InTick \/ \E i \in 1..Len(queue) : queue[i].kind = "periodic"

\* the battery bytes a payload carries: the data of its battery service-data elements
BatteryBytes(buf) ==
  LET es == Elements(buf, 1)
  IN {es[i].data[3] : i \in {j \in 1..Len(es) :
        es[j].type = SERVICE_DATA /\ Len(es[j].data) = 3}}

\* the level the claim gives for the state after the k-th tick
LevelAfterTick(k) == IF k <= 40 THEN 50 - k ELSE 100 - ((k - 41) % 91)

\* C1: after the k-th tick the level is 50 - k for k <= 40 (10 after 40 ticks),
\* 100 after the 41st, and from then on it repeats 100, 99, ..., 10 every 91 ticks.
C1_BatterySequence == ~InTick => m_TheBatteryLevel = LevelAfterTick(ticks)

\* C1 witness: 91 ticks after the first 100 (tick 41) the level is 100 again
C1_Witness == ~InTick /\ ticks = 132 /\ m_TheBatteryLevel = 100

\* the rule of the claim: decrement, then set to 100 if the decremented level is 10
DecrementThenTest(level) == IF Decrement(level) = 10 THEN 100 ELSE Decrement(level)

\* the rule of the code: set to 100 if the level was 10, else decrement (mod 256)
TestThenDecrement(level) == IF level = 10 THEN 100 ELSE (level + 255) % 256

\* C2 as stated: the level a tick leaves is the one 'decrement, then if the
\* decremented level equals 10 set it to 100' gives from the level it started at.
C2_Original == pc = "tick_patch" => m_TheBatteryLevel = DecrementThenTest(levelBefore)

\* C2 amended: for every 8-bit starting level the level a tick leaves is 100 if
\* the level was 10 before the tick, and otherwise the level minus 1 modulo 256.
C2_TickRule == pc = "tick_patch" => m_TheBatteryLevel = TestThenDecrement(levelBefore)

\* C2 witness: a tick from 11 has left 10, where the two rules differ
C2_Witness == pc = "tick_patch" /\ levelBefore = 11 /\ m_TheBatteryLevel = 10

\* C3: between work items the level is in 10..100, and every battery byte in the
\* builder's payload or held by Gap is in 10..100.
C3_LevelRange ==
  /\ ~InTick => m_TheBatteryLevel \in 10..100
  /\ BatteryBytes(m_AdvertisingBuffer) \subseteq 10..100
  /\ BatteryBytes(gap.payload) \subseteq 10..100

\* C3 witness: both ends of the range have been advertised: Gap holds 100 right
\* after the wrap from 10
C3_Witness ==
  /\ ~InTick
  /\ levelBefore = 10
  /\ m_TheBatteryLevel = 100
  /\ BatteryBytes(gap.payload) = {100}

\* C4: while the init callback has not reported success nothing has been done:
\* no Gap call, no periodic item, no tick, the level and Gap's state as
\* constructed; after a non-success report that stays so for the rest of the run.
C4_InitGating ==
  (init.state # "done" \/ init.error # BLE_ERROR_NONE) =>
    /\ \A c \in GapCallNames : gapCalls[c] = 0 /\ setupStatus[c] = "none"
    /\ ~PeriodicRegistered
    /\ ticks = 0
    /\ m_TheBatteryLevel = InitialBatteryLevel
    /\ m_AdvertisingBuffer = <<>>
    /\ gap = [params |-> NoParameters, payload |-> <<>>, scanResponse |-> <<>>,
              advertising |-> FALSE]

\* C4 witness: init has reported an error and two more process-events items
\* have run after the one that delivered it
C4_Witness ==
  /\ init.state = "done"
  /\ init.error = "BLE_ERROR_INITIALIZATION_INCOMPLETE"
  /\ ctrl = "Failed"
  /\ Len(execCount) >= 3
  /\ \A n \in 1..3 : execCount[n] = 1

\* a Gap configuration call of start_advertising has returned an error
SetupCallFailed ==
  \E c \in {"setAdvertisingScanResponse", "setAdvertisingParameters",
            "setAdvertisingPayload"} :
    setupStatus[c] \notin {"none", BLE_ERROR_NONE}

\* every Gap call of start_advertising has returned success
AllSetupOk == \A c \in GapCallNames : setupStatus[c] = BLE_ERROR_NONE

\* C5 as stated: once setAdvertisingScanResponse, setAdvertisingParameters or
\* setAdvertisingPayload has returned an error during setup, startAdvertising
\* is never called, the periodic item is never registered, and the controller
\* is Failed when the setup callback has returned.
C5_SetupFailureHalts ==
  SetupCallFailed =>
    /\ gapCalls["startAdvertising"] = 0
    /\ ~PeriodicRegistered
    /\ ctrl # "Advertising"
    /\ pc = "idle" => ctrl = "Failed"

\* the payloads start_advertising is to leave with Gap
ExpectedPrimary ==
  << [type |-> FLAGS, data |-> <<DefaultFlags>>],
     [type |-> COMPLETE_LOCAL_NAME, data |-> DEVICE_NAME],
     [type |-> SERVICE_DATA, data |-> <<15, 24, 50>>] >>
ExpectedScanResponse ==
  << [type |-> MANUFACTURER_SPECIFIC_DATA, data |-> <<173, 222, 190, 239>>] >>

\* the element types of a payload
Types(buf) == {Elements(buf, 1)[i].type : i \in 1..Len(Elements(buf, 1))}

\* C6: when init and every Gap call succeeded, from entering Advertising until
\* the first tick Gap holds as primary payload exactly Flags, the complete local
\* name and the battery service data [50], and as scan response exactly the
\* manufacturer data AD DE BE EF; no element type is in both.
C6_InitialPayloads ==
  (ctrl = "Advertising" /\ AllSetupOk /\ ticks = 0) =>
    /\ gap.advertising
    /\ Elements(gap.payload, 1) = ExpectedPrimary
    /\ Elements(gap.scanResponse, 1) = ExpectedScanResponse
    /\ Types(gap.payload) \cap Types(gap.scanResponse) = {}

\* C6 witness: Advertising has been entered with every call successful
C6_Witness ==
  /\ ctrl = "Advertising" /\ AllSetupOk /\ ticks = 0 /\ pc = "idle"
  /\ Len(gap.payload) = 23 /\ Len(gap.scanResponse) = 6

\* the step in which a tick ends with an error return
TickFails == pc = "tick_patch" /\ pc' = "idle" /\ tickResult' # "ok"

\* C7: a tick that ends in an error leaves with Gap the payload it held, leaves
\* the controller in Advertising and the level as the tick set it, and leaves the
\* periodic item queued for one period after the time it was due (no retry);
\* and once registered the periodic item is never lost.
C7_TickFailureContinues ==
  /\ [][TickFails =>
          /\ gap' = gap
          /\ ctrl = "Advertising" /\ ctrl' = "Advertising"
          /\ m_TheBatteryLevel' = m_TheBatteryLevel
          /\ \E i \in 1..Len(queue') :
               /\ queue'[i].kind = "periodic"
               /\ queue'[i].target = running.target + Period
               /\ queue'[i].target > 0]_vars
  /\ [][PeriodicRegistered => PeriodicRegistered']_vars

\* C7 witness: a tick failed, Gap kept the older byte, and a later tick succeeded
C7_Witness ==
  /\ tickFailures >= 1
  /\ tickResult = "ok"
  /\ ticks >= 3
  /\ pc = "idle"
  /\ BatteryBytes(gap.payload) = {m_TheBatteryLevel}

\* C7 witness of the failed tick itself: Gap still holds the byte of the tick before
C7_StalePayload ==
  /\ tickResult = "setAdvertisingPayload failed"
  /\ pc = "idle"
  /\ BatteryBytes(gap.payload) = {levelBefore}
  /\ m_TheBatteryLevel = levelBefore - 1

\* how many times notification n's item is waiting in the queue or executing
Pending(n) ==
  Cardinality({i \in 1..Len(queue) : queue[i].kind = "oneshot" /\ queue[i].id = n})
  + (IF running.kind = "oneshot" /\ running.id = n THEN 1 ELSE 0)

\* C8 as stated: every notification raised has exactly one item that is waiting,
\* executing or executed once; none is dropped, however many are outstanding.
C8_Original == \A n \in 1..raised : Pending(n) + execCount[n] = 1

\* C8 amended: a notification raised while the queue has room for an event has
\* exactly one item, which waits, then executes, and has executed once when it
\* is gone; a notification is dropped only when the 16 events the queue has room
\* for are all in use, and a dropped one is never executed; with the consumer
\* running, the forwarded items of a run end up all executed.
C8_Forwarding ==
  /\ [](\A n \in 1..raised :
          /\ execCount[n] <= 1
          /\ Pending(n) + execCount[n] = IF n \in dropped THEN 0 ELSE 1)
  /\ [][dropped' # dropped => SlotsUsed = QueueCapacity]_vars
  /\ <>[](\A n \in 1..raised : n \notin dropped => execCount[n] = 1)

\* C8 witness: a notification was dropped on a full queue and every other one
\* has been executed once
C8_Witness ==
  /\ dropped # {}
  /\ raised = QueueCapacity + MaxNotifyExtra
  /\ \A n \in 1..raised : n \notin dropped => execCount[n] = 1

\* the step in which dispatch_forever starts a work item
Starts == pc = "idle" /\ pc' # "idle"

\* C9: the item that starts was waiting in the queue and is due, nothing that
\* still waits is due earlier, and no one-shot item that still waits was posted
\* before it; so one-shot items run in posting order and a one-shot item posted
\* before the periodic item's due time runs before that firing. The periodic
\* item's next due time is later than the one it has just fired for.
C9_SchedulerOrder ==
  /\ [][Starts =>
          /\ queue # <<>> /\ running' = Head(queue) /\ queue' = Tail(queue)
          /\ running'.target <= 0
          /\ running'.kind = "oneshot" =>
               /\ running'.id <= raised
               /\ execCount[running'.id] = 0
          /\ \A i \in 1..Len(queue') :
               /\ queue'[i].target >= running'.target
               /\ queue'[i].kind = "oneshot" /\ running'.kind = "oneshot"
                    => queue'[i].id > running'.id]_vars
  /\ [][(pc = "tick_patch" /\ pc' = "idle") =>
          \A i \in 1..Len(queue') :
            queue'[i].kind = "periodic" => queue'[i].target > running.target]_vars

\* C9 witness: the periodic item is due, a one-shot item posted before its due
\* time is ahead of it and one posted at its due time is behind it
C9_Witness ==
  /\ pc = "idle"
  /\ Len(queue) >= 3
  /\ queue[1].kind = "oneshot" /\ queue[1].target < 0
  /\ queue[2].kind = "periodic" /\ queue[2].target = 0
  /\ queue[3].kind = "oneshot" /\ queue[3].target = 0
  /\ ticks >= 1

\* the transitions of the controller's state machine
Transitions ==
  { <<"Uninitialized", "Initializing">>,
    <<"Initializing", "AdvertisingConfigured">>,
    <<"Initializing", "Failed">>,
    <<"AdvertisingConfigured", "Advertising">>,
    <<"AdvertisingConfigured", "Failed">> }

\* C10: the controller state changes only along Uninitialized -> Initializing ->
\* AdvertisingConfigured -> Advertising, or to Failed from Initializing or
\* AdvertisingConfigured: Failed and Advertising are never left (no tick
\* outcome changes the state) and no state is entered a second time.
C10_ForwardOnly == [][ctrl' # ctrl => <<ctrl, ctrl'>> \in Transitions]_vars

\* C10 witness: a tick has failed and the controller is still in Advertising
C10_Witness ==
  /\ ctrl = "Advertising"
  /\ tickResult = "setAdvertisingPayload failed"
  /\ pc = "idle"

\* the Gap calls that configure and start advertising
SetupOnlyCalls == GapCallNames \ {"setAdvertisingPayload"}

\* C11: once Advertising is reached the parameters, the scan response and the
\* advertising flag Gap holds never change and setAdvertisingParameters,
\* setAdvertisingScanResponse and startAdvertising are never called again (each
\* was called once); a tick makes no Gap call but setAdvertisingPayload, at
\* most once.
C11_GapFrame ==
  /\ [][ctrl = "Advertising" =>
          /\ gap'.params = gap.params
          /\ gap'.scanResponse = gap.scanResponse
          /\ gap'.advertising = gap.advertising
          /\ \A c \in SetupOnlyCalls : gapCalls'[c] = gapCalls[c]]_vars
  /\ [][InTick =>
          /\ \A c \in SetupOnlyCalls : gapCalls'[c] = gapCalls[c]
          /\ gapCalls'["setAdvertisingPayload"] - gapCalls["setAdvertisingPayload"]
               \in {0, 1}]_vars
  /\ [](ctrl = "Advertising" =>
          /\ \A c \in SetupOnlyCalls : gapCalls[c] = 1
          /\ gapCalls["setAdvertisingPayload"] <= 1 + ticks)

\* C11 witness: two ticks have pushed their payload and Gap still holds the
\* parameters and the scan response of the setup
C11_Witness ==
  /\ ctrl = "Advertising" /\ pc = "idle" /\ ticks = 2
  /\ gapCalls["setAdvertisingPayload"] = 3
  /\ gap.params = AdvertisingParameters
  /\ Elements(gap.scanResponse, 1) = ExpectedScanResponse
  /\ gap.advertising

\* the step in which a tick patches the payload and returns
TickEnds == pc = "tick_patch" /\ pc' = "idle"

\* where a payload keeps the battery value: the byte after the length, the type
\* and the two id bytes of its service-data element
BatteryByteAt(buf) == FieldAt(buf, SERVICE_DATA, 1) + 4

\* two payloads are the same bytes except, at most, for the battery value byte
SameButBattery(a, b) ==
  LET at == BatteryByteAt(a)
  IN /\ Len(a) = Len(b)
     /\ \A i \in 1..Len(a) : i # at => a[i] = b[i]

\* the element types of a payload in the order they are laid out
TypeOrder(buf) ==
  LET es == Elements(buf, 1) IN [i \in 1..Len(es) |-> es[i].type]

\* the primary payload as start_advertising builds it
InitialPrimary == PrimaryPayload(<<>>, InitialBatteryLevel)

\* C12: a tick changes nothing of the builder's payload, nor of the payload Gap
\* holds, but the battery value byte: the length, the Flags and name elements,
\* the service-data header (length, type, service id) and the order of the
\* elements stay byte for byte, and the battery element stays one element in its
\* place (replaced, not added a second time).
C12_TickPatchesOneByte ==
  /\ [][TickEnds =>
          /\ SameButBattery(m_AdvertisingBuffer, m_AdvertisingBuffer')
          /\ SameButBattery(gap.payload, gap'.payload)
          /\ TypeOrder(m_AdvertisingBuffer') = TypeOrder(m_AdvertisingBuffer)
          /\ m_AdvertisingBuffer'[BatteryByteAt(m_AdvertisingBuffer)]
               = m_TheBatteryLevel]_vars
  /\ [](ctrl = "Advertising" =>
          /\ TypeOrder(m_AdvertisingBuffer) = <<FLAGS, COMPLETE_LOCAL_NAME, SERVICE_DATA>>
          /\ SameButBattery(InitialPrimary, m_AdvertisingBuffer)
          /\ SameButBattery(InitialPrimary, gap.payload))

\* C12 witness: two ticks have patched the payload: the 23 bytes Gap holds are
\* those of the setup but for the battery byte, now 48
C12_Witness ==
  /\ ctrl = "Advertising" /\ pc = "idle" /\ ticks = 2
  /\ Len(gap.payload) = 23
  /\ gap.payload # InitialPrimary
  /\ gap.payload[BatteryByteAt(gap.payload)] = 48
  /\ m_AdvertisingBuffer = gap.payload

RECURSIVE EncodedSize(_)
\* bytes a sequence of elements takes on the wire: length, type and data of each
EncodedSize(es) ==
  IF es = <<>> THEN 0 ELSE 2 + Len(Head(es).data) + EncodedSize(Tail(es))

\* the total size a set call asks for: the other elements and the new one
SizeAfter(buf, type, data) ==
  EncodedSize(SelectSeq(Elements(buf, 1), LAMBDA e : e.type # type)) + 2 + Len(data)

\* a step that is a set call on the builder (any call but clear)
SetStep ==
  /\ builderCall'.op \notin {"none", "clear"}
  /\ builderCall' # builderCall \/ m_AdvertisingBuffer' # m_AdvertisingBuffer

\* C13: after any sequence of clear, setFlags, setName, setManufacturerSpecificData
\* and setServiceData calls the payload is at most 31 bytes, holds each element
\* type at most once and is as long as the encoded sizes of its elements add up
\* to; a set call whose total stays within 31 bytes succeeds and leaves that total.
C13_Capacity ==
  /\ [](/\ Len(m_AdvertisingBuffer) <= LEGACY_ADVERTISING_MAX_SIZE
        /\ Len(m_AdvertisingBuffer) = EncodedSize(Elements(m_AdvertisingBuffer, 1))
        /\ Cardinality(Types(m_AdvertisingBuffer))
             = Len(Elements(m_AdvertisingBuffer, 1)))
  /\ [][(SetStep /\ SizeAfter(m_AdvertisingBuffer, builderCall'.type, builderCall'.data)
                      <= LEGACY_ADVERTISING_MAX_SIZE) =>
          /\ builderCall'.error = BLE_ERROR_NONE
          /\ Len(m_AdvertisingBuffer')
               = SizeAfter(m_AdvertisingBuffer, builderCall'.type, builderCall'.data)]_vars

\* C13 witness: a payload of several elements that fills the 31 bytes exactly
C13_Witness ==
  /\ Len(m_AdvertisingBuffer) = LEGACY_ADVERTISING_MAX_SIZE
  /\ Len(Elements(m_AdvertisingBuffer, 1)) >= 3
  /\ builderCall.error = BLE_ERROR_NONE
  /\ builderCall.op = "setName"

\* C14: a set call, appending or replacing, whose total would exceed 31 bytes
\* returns BLE_ERROR_BUFFER_OVERFLOW and leaves the payload, bytes and length,
\* as it was.
C14_OverflowLeavesPayload ==
  [][(SetStep /\ SizeAfter(m_AdvertisingBuffer, builderCall'.type, builderCall'.data)
                   > LEGACY_ADVERTISING_MAX_SIZE) =>
       /\ builderCall'.error = "BLE_ERROR_BUFFER_OVERFLOW"
       /\ m_AdvertisingBuffer' = m_AdvertisingBuffer]_vars

\* C14 witness: a replacement of an element the payload holds was refused; the
\* payload still holds the smaller element
C14_Witness ==
  /\ builderCall.error = "BLE_ERROR_BUFFER_OVERFLOW"
  /\ builderCall.type \in Types(m_AdvertisingBuffer)
  /\ Len(Elements(m_AdvertisingBuffer, 1)) >= 2
  /\ SizeAfter(m_AdvertisingBuffer, builderCall.type, builderCall.data)
       > LEGACY_ADVERTISING_MAX_SIZE

\* C15: setServiceData with the id and bytes of the call before it, which
\* succeeded, succeeds and leaves the payload as that call left it; and from
\* every payload, for every id and bytes, a second call after a successful first
\* one changes nothing.
C15_SetServiceDataIdempotent ==
  /\ [][(builderCall'.op = "setServiceData" /\ builderCall'.again) =>
          /\ m_AdvertisingBuffer' = m_AdvertisingBuffer
          /\ builderCall'.error = BLE_ERROR_NONE]_vars
  /\ [](\A service \in Services, data \in ServiceBytes :
          LET once == setServiceData(m_AdvertisingBuffer, service, data)
          IN once.error = BLE_ERROR_NONE =>
               setServiceData(once.buf, service, data) = once)

\* C15 witness: the call was repeated on a payload whose service data is the
\* first of three elements
C15_Witness ==
  /\ builderCall.op = "setServiceData" /\ builderCall.again
  /\ builderCall.error = BLE_ERROR_NONE
  /\ Len(Elements(m_AdvertisingBuffer, 1)) = 3
  /\ Elements(m_AdvertisingBuffer, 1)[1] =
       [type |-> SERVICE_DATA, data |-> builderCall.data]

\* C16: ToString returns a non-empty string for every code value: for a code
\* the table lists, the description inserted for it, for any other value the
\* fixed warning; the table keeps its 14 entries and a ToString call changes
\* nothing but the string returned.
C16_ToStringTotal ==
  /\ [](/\ gs_ErrorCodesMap = make_error_codes_map
        /\ Cardinality(DOMAIN gs_ErrorCodesMap) = 14
        /\ \A key \in ErrorCodeValues :
             LET r == ToString(gs_ErrorCodesMap, key)
                 listed == {i \in 1..Len(ErrorCodeEntries) : ErrorCodeEntries[i][1] = key}
             IN /\ r.result # ""
                /\ r.map = gs_ErrorCodesMap
                /\ \A i \in listed : r.result = ErrorCodeEntries[i][2]
                /\ listed = {} => r.result = NotInTable
        /\ described.key # "none" =>
             described.result = ToString(make_error_codes_map, described.key).result)
  /\ [][described' # described =>
          UNCHANGED <<ctrl, pc, m_TheBatteryLevel, m_AdvertisingBuffer, gap, gapCalls,
                      setupStatus, init, queue, running, raised, dropped, execCount,
                      ticks, tickResult, tickFailures, levelBefore, builderCall,
                      gs_ErrorCodesMap, missed>>]_vars

\* C16 witness: ToString was given a value the table does not list, returned
\* the warning and left the builder's payload and the table as they were
C16_Witness ==
  /\ described.key = "ble_error_t(255)"
  /\ described.result = NotInTable
  /\ gs_ErrorCodesMap = make_error_codes_map
  /\ Len(m_AdvertisingBuffer) = LEGACY_ADVERTISING_MAX_SIZE

\* how many periodic battery items the queue holds, waiting or executing
PeriodicCount ==
  Cardinality({i \in 1..Len(queue) : queue[i].kind = "periodic"})
  + (IF InTick THEN 1 ELSE 0)

\* C17 as stated: the periodic item is registered exactly when startAdvertising
\* has returned success (not before, not when it failed), it is registered at
\* most once, and no tick runs before startAdvertising has succeeded.
C17_RegisteredOnSuccess ==
  /\ PeriodicRegistered <=> setupStatus["startAdvertising"] = BLE_ERROR_NONE
  /\ PeriodicCount <= 1
  /\ ticks > 0 => setupStatus["startAdvertising"] = BLE_ERROR_NONE

\* C18 as stated, the part every run must satisfy at each moment: once init has
\* reported success and every Gap call of the setup has succeeded, the
\* controller is in Advertising and the periodic item is in the queue, waiting
\* or executing, so that ticks keep running (and the level is 10 and 100 again
\* and again).
C18_TicksKeepRunning ==
  (init.state = "done" /\ init.error = BLE_ERROR_NONE /\ AllSetupOk) =>
    /\ ctrl = "Advertising"
    /\ PeriodicRegistered

\* which work item is executing, whatever its age
ItemId(e) == <<e.kind, e.id>>

\* C19: a work item starts only when the consumer is idle and no item is
\* executing, also when the step before or after is a producer's post; the
\* code of the setup and of a tick runs only inside an executing item; the
\* advertising buffer and the battery level change only in a step of an
\* executing item; and a producer's post changes neither these nor the
\* controller, Gap, the consumer's position or the executing item.
C19_RunToCompletion ==
  /\ [][(running'.kind # "none" /\ ItemId(running') # ItemId(running)) =>
          /\ running.kind = "none"
          /\ pc = "idle"
          /\ raised' = raised]_vars
  /\ [](pc \notin {"main", "idle"} <=> running.kind # "none")
  /\ [][(m_AdvertisingBuffer' # m_AdvertisingBuffer
          \/ m_TheBatteryLevel' # m_TheBatteryLevel) =>
          /\ running.kind # "none"
          /\ raised' = raised]_vars
  /\ [][raised' # raised =>
          /\ UNCHANGED <<m_AdvertisingBuffer, m_TheBatteryLevel, gap, gapCalls, ctrl,
                         pc, builderCall>>
          /\ ItemId(running') = ItemId(running)]_vars

\* C19 witness: a tick is between its level update and its patch while a
\* process-events item posted by the producer waits behind it, not started
C19_Witness ==
  /\ pc = "tick_patch" /\ InTick
  /\ m_TheBatteryLevel # levelBefore
  /\ BatteryBytes(m_AdvertisingBuffer) = {levelBefore}
  /\ \E i \in 1..Len(queue) :
       /\ queue[i].kind = "oneshot" /\ queue[i].id = raised
       /\ execCount[raised] = 0

\* a tick has ended and no other is in progress
AfterATick == ~InTick /\ ticks >= 1

====
